---- MODULE Spec2Model ----
(***************************************************************************)
(* State-machine model of the e-Stat ranking dashboard                     *)
(* (hrkzz/estat-analysis): three Streamlit page scripts that are re-run in *)
(* full on every user interaction.                                         *)
(*                                                                         *)
(*   overview         src/app/全体概要.py                                  *)
(*   field_analysis   src/app/pages/分野別分析.py                          *)
(*   series_overview  src/app/pages/統計シリーズ概要.py                    *)
(*                                                                         *)
(* Representation choices                                                  *)
(*   - a table (DataFrame) is a sequence of records, one record per row;   *)
(*   - a calendar date is its day number (days since 1970-01-01), the      *)
(*     civil conversions are computed, never assumed;                      *)
(*   - a missing cell (NaN after read_csv) of a text column is the empty   *)
(*     string "", of series_name the empty character sequence << >>;       *)
(*   - series_name is a sequence of characters, so that str.replace of     *)
(*     U+2010 by '-' is computed ("u2010" stands for the character U+2010);*)
(*   - Japanese string literals are romanised (TLA+ strings are ASCII):    *)
(*     the table next to custom_order gives the correspondence;            *)
(*   - a raw access_count cell is a tagged record: a number in tenths      *)
(*     (so 2.7 is tenths = 27), a non-numeric text, or a missing cell.     *)
(***************************************************************************)
EXTENDS Integers, Sequences, FiniteSets, TLC

(***************************************************************************)
(* Bounds of the model                                                     *)
(***************************************************************************)
\* largest number of rows of estat_ranking_merged.csv
MaxRows == 2
\* largest number of rows of estat_all_series_details_normalized.csv
MaxDetails == 1
\* largest number of (series, file, link) groups of the field with many files
MaxGroups == 11
\* number of days, from 2024-01-01 on, that the last date of the data ranges over
CalendarDays == 366

(***************************************************************************)
(* Generic helpers on sequences and sets                                   *)
(***************************************************************************)
Range(s) == {s[i] : i \in DOMAIN s}

\* the record with the fields of a and of b (b's value where both have one)
Merge(a, b) ==
  [f \in DOMAIN a \cup DOMAIN b |-> IF f \in DOMAIN b THEN b[f] ELSE a[f]]

RECURSIVE SumSet(_, _)
\* sum of f[x] over the finite set S
SumSet(S, f) ==
  IF S = {} THEN 0
  ELSE LET x == CHOOSE y \in S : TRUE
       IN f[x] + SumSet(S \ {x}, f)

\* the subsequences of pool (order kept) with at most n elements
SubSeqs(pool, n) ==
  LET idx == {I \in SUBSET (DOMAIN pool) : Cardinality(I) <= n}
      RECURSIVE Pick(_, _)
      Pick(I, k) ==
        IF k > Len(pool) THEN << >>
        ELSE IF k \in I THEN <<pool[k]>> \o Pick(I, k + 1)
             ELSE Pick(I, k + 1)
  IN {Pick(I, 1) : I \in idx}

(***************************************************************************)
(* Calendar: datetime.date, timedelta and dateutil.relativedelta           *)
(***************************************************************************)
IsLeap(y) == (y % 4 = 0 /\ y % 100 # 0) \/ y % 400 = 0

\* calendar.monthrange(y, m)[1]
DaysInMonth(y, m) ==
  IF m = 2 THEN (IF IsLeap(y) THEN 29 ELSE 28)
  ELSE IF m \in {4, 6, 9, 11} THEN 30 ELSE 31

\* days from the start of a 400-year era to day doy of its year yoe; years
\* start on 1 March, so that a leap day is the last day of its year
DayOfEra(yoe, doy) == yoe * 365 + yoe \div 4 - yoe \div 100 + doy

\* day number of day d of month mp (0 is March) of the March-based year yy
DayNumberShifted(yy, mp, d) ==
  (yy \div 400) * 146097 + DayOfEra(yy % 400, (153 * mp + 2) \div 5 + d - 1)
  - 719468

\* day number of the civil date y-m-d (days since 1970-01-01):
\* datetime.date(y, m, d)
DayNumber(y, m, d) ==
  DayNumberShifted(IF m <= 2 THEN y - 1 ELSE y, IF m > 2 THEN m - 3 ELSE m + 9, d)

\* the civil date of day doy of month mp (0 is March) of March-based year y0
CivilRecord(y0, mp, doy) ==
  [y |-> IF mp < 10 THEN y0 ELSE y0 + 1,
   m |-> IF mp < 10 THEN mp + 3 ELSE mp - 9,
   d |-> doy - (153 * mp + 2) \div 5 + 1]

CivilOfYearDay(y0, doy) == CivilRecord(y0, (5 * doy + 2) \div 153, doy)

CivilOfYearOfEra(era, doe, yoe) ==
  CivilOfYearDay(yoe + era * 400, doe - DayOfEra(yoe, 0))

CivilOfEraDay(era, doe) ==
  CivilOfYearOfEra(era, doe,
    (doe - doe \div 1460 + doe \div 36524 - doe \div 146096) \div 365)

\* civil date [y, m, d] of a day number: date.year, date.month, date.day
Civil(n) == CivilOfEraDay((n + 719468) \div 146097, (n + 719468) % 146097)

\* date - timedelta(days=k)
MinusDays(date, k) == date - k

\* the date of month index mi (12 * year + month - 1) whose day is d, or the
\* last day of that month when the month is shorter
ClampedDate(mi, d) ==
  DayNumber(mi \div 12, (mi % 12) + 1,
            IF d <= DaysInMonth(mi \div 12, (mi % 12) + 1) THEN d
            ELSE DaysInMonth(mi \div 12, (mi % 12) + 1))

ShiftMonths(c, k) == ClampedDate(c.y * 12 + (c.m - 1) - k, c.d)

\* MinusRelativeDelta with months of 30 and years of 365 days
MinusRelativeDeltaFixedDays(date, yrs, mths) == date - 365 * yrs - 30 * mths

\* date - relativedelta(years=yrs, months=mths): shift year and month, then
\* clamp the day to the last day of the target month
MinusRelativeDelta(date, yrs, mths) == ShiftMonths(Civil(date), yrs * 12 + mths)

\* the calendar month of a date: the bucket of resample('ME'),
\* pd.Grouper(freq='ME') and dt.to_period('M')
MonthIndex(c) == c.y * 12 + (c.m - 1)
MonthOf(date) == MonthIndex(Civil(date))

(***************************************************************************)
(* Literals of the source                                                  *)
(***************************************************************************)
\* the options of the period radio button (both sidebar blocks):
\*   past_1_week  '過去1週間'     past_1_month '過去1ヶ月'
\*   past_1_year  '過去1年'       past_2_years '過去2年'
\*   past_3_years '過去3年'       past_5_years '過去5年'
\*   all_period   '全期間'        custom       '期間を直接指定'
date_range_options ==
  <<"past_1_week", "past_1_month", "past_1_year", "past_2_years",
    "past_3_years", "past_5_years", "all_period", "custom">>

\* index=6 of the radio button: '全期間'
default_option == "all_period"

\* the 17 field_major values, in the order of the source:
\*   kokudo_kisho '国土・気象', jinko_setai '人口・世帯',
\*   rodo_chingin '労働・賃金', norin_suisan '農林水産業', kokogyo '鉱工業',
\*   shogyo_service '商業・サービス業', kigyo_kakei_keizai '企業・家計・経済',
\*   jutaku_tochi_kensetsu '住宅・土地・建設', energy_mizu 'エネルギー・水',
\*   unyu_kanko '運輸・観光', joho_kagaku '情報通信・科学技術',
\*   kyoiku_bunka '教育・文化・スポーツ・生活', gyozaisei '行財政',
\*   shiho_anzen_kankyo '司法・安全・環境', shakai_hosho '社会保障・衛生',
\*   kokusai '国際', sonota 'その他'
custom_order ==
  <<"kokudo_kisho", "jinko_setai", "rodo_chingin", "norin_suisan", "kokogyo",
    "shogyo_service", "kigyo_kakei_keizai", "jutaku_tochi_kensetsu",
    "energy_mizu", "unyu_kanko", "joho_kagaku", "kyoiku_bunka", "gyozaisei",
    "shiho_anzen_kankyo", "shakai_hosho", "kokusai", "sonota">>

\* the field preselected by the field selector: "人口・世帯"
default_major == "jinko_setai"

\* placeholder entry of the series selector: "▼ 分析したいシリーズを選択..."
series_placeholder == <<"placeholder">>

\* a missing cell of a text column / of series_name
NaN == ""
NaNName == << >>

\* the characters that load_all_data replaces: U+2010 by ASCII hyphen-minus
U2010 == "u2010"
HyphenMinus == "-"

(***************************************************************************)
(* The two CSV files: bounded input space                                  *)
(***************************************************************************)
Num(t) == [kind |-> "num", tenths |-> t]
Text == [kind |-> "text", tenths |-> 0]
Missing == [kind |-> "missing", tenths |-> 0]

\* dates of the ranking rows
Jan31 == DayNumber(2024, 1, 31)
Mar25 == DayNumber(2024, 3, 25)
Mar28 == DayNumber(2024, 3, 28)
Mar31 == DayNumber(2024, 3, 31)

NameA == <<"a">>
NameB == <<"b">>
NameAC2010 == <<"a", U2010, "c">>
NameAC == <<"a", HyphenMinus, "c">>
NameZ == <<"z">>

RankRow(d, s, f, o, t, fn, l, r, a) ==
  [date |-> d, series_name |-> s, field_major |-> f, organization |-> o,
   file_type |-> t, file_name |-> fn, main_link |-> l, rank |-> r,
   access_count |-> a]

\* rows estat_ranking_merged.csv may hold: regular rows in January and in
\* March, a name written with U+2010, missing keys (series_name,
\* field_major, organization, file_type), a field outside the vocabulary,
\* and non-numeric, missing, fractional and negative counts
RankedPool ==
  << RankRow(Jan31, NameA, "jinko_setai", "soumu", "PDF", "f1", "l1", 1, Num(100)),
     RankRow(Mar25, NameB, "jinko_setai", "soumu", "CSV", "f2", "l2", 2, Num(30)),
     RankRow(Mar28, NameAC2010, "kokudo_kisho", NaN, NaN, "f3", "l3", 1, Text),
     RankRow(Mar28, NaNName, "jinko_setai", "kosei", "PDF", "f4", "l4", 3, Num(27)),
     RankRow(Mar31, NameA, NaN, "soumu", "Excel", "f1", "l1", 2, Num(-40)),
     RankRow(Mar31, NameZ, "dokuji_bunya", "kosei", "PDF", "f5", "l5", 1, Missing) >>

DetailRow(s, o, f, ov) ==
  [series_name |-> s, organization |-> o, field_major |-> f, overview |-> ov]

\* rows estat_all_series_details_normalized.csv may hold: a name listed
\* twice, a field outside the vocabulary, a missing organization, a row
\* without series_name and field_major
DetailsPool ==
  << DetailRow(NameA, "soumu", "jinko_setai", "ov1"),
     DetailRow(NameB, "kosei", "jinko_setai", "ov2"),
     DetailRow(NameAC, NaN, "kokudo_kisho", "ov3"),
     DetailRow(NameA, "kosei", "dokuji_bunya", "ov4"),
     DetailRow(NaNName, "soumu", NaN, NaN) >>

\* the ranking file is never empty (min_date and max_date exist)
RankedFiles == SubSeqs(RankedPool, MaxRows) \ {<< >>}
DetailsFiles == SubSeqs(DetailsPool, MaxDetails)

(***************************************************************************)
(* DataFrame operations used by the pages                                  *)
(***************************************************************************)
\* pd.to_numeric(errors='coerce').fillna(0).astype(int) on one cell:
\* a non-numeric or missing cell becomes 0, a number is truncated towards 0
CoerceAccessCount(cell) ==
  LET numeric == IF cell.kind = "num" THEN cell ELSE Missing   \* to_numeric
      filled  == IF numeric.kind = "missing" THEN 0 ELSE numeric.tenths
  IN IF filled >= 0 THEN filled \div 10 ELSE -((-filled) \div 10)

\* Series.str.replace(U+2010, '-', regex=False); a missing name stays missing
NormalizeHyphen(name) ==
  [i \in DOMAIN name |-> IF name[i] = U2010 THEN HyphenMinus ELSE name[i]]

\* Series.sum() of access_count
RECURSIVE SumAccess(_)
SumAccess(rows) ==
  IF rows = << >> THEN 0
  ELSE Head(rows).access_count + SumAccess(Tail(rows))

\* Series.nunique() of series_name: distinct values, missing ones not counted
NUniqueSeries(rows) ==
  Cardinality({rows[i].series_name : i \in DOMAIN rows} \ {NaNName})

\* Series.unique() of series_name as a set: a missing value is a value
UniqueSeries(rows) == {rows[i].series_name : i \in DOMAIN rows}

\* Series.dropna().unique() of field_major
FieldsPresent(rows) == {rows[i].field_major : i \in DOMAIN rows} \ {NaN}

\* the value of a grouping column in row r; "date:ME" is
\* pd.Grouper(key='date', freq='ME'), the calendar month of the date
Cell(r, col) == IF col = "date:ME" THEN MonthOf(r.date) ELSE r[col]

\* pd.isna of the value of a grouping column
IsNa(r, col) ==
  IF col = "series_name" THEN r.series_name = NaNName
  ELSE IF col \in {"date:ME", "year_month"} THEN FALSE
       ELSE r[col] = NaN

\* the group key of row r: the value of the column, or the tuple of the
\* values of the columns
GroupKey(r, cols) ==
  IF Len(cols) = 1 THEN Cell(r, cols[1])
  ELSE [j \in DOMAIN cols |-> Cell(r, cols[j])]

\* df.groupby(cols)['access_count'].sum(): one entry per key, rows with a
\* missing value in a key column are left out (groupby's dropna=True default)
GroupBySum(rows, cols) ==
  [k \in {GroupKey(rows[i], cols) :
            i \in {n \in DOMAIN rows : \A j \in DOMAIN cols : ~IsNa(rows[n], cols[j])}} |->
     SumAccess(SelectSeq(rows, LAMBDA r : /\ \A j \in DOMAIN cols : ~IsNa(r, cols[j])
                                          /\ GroupKey(r, cols) = k))]

\* df.set_index('date').resample('ME')['access_count'].sum(): one bin for
\* every calendar month from the first to the last month of the rows, the
\* sum of an empty bin is 0
ResampleMonthSum(rows) ==
  IF rows = << >> THEN << >>
  ELSE LET months == {MonthOf(rows[i].date) : i \in DOMAIN rows}
           first  == CHOOSE m \in months : \A n \in months : m <= n
           last   == CHOOSE m \in months : \A n \in months : n <= m
       IN [m \in first..last |->
             SumAccess(SelectSeq(rows, LAMBDA r : MonthOf(r.date) = m))]

\* [x for x in custom_order if x in present]
InCustomOrder(present) == SelectSeq(custom_order, LAMBDA f : f \in present)

\* f"{count} ({count / total:.1%})": the count and the percentage in tenths
\* of a percent, rounded to the nearest
WithPercent(count, total) ==
  [count |-> count, percent |-> TRUE,
   permille |-> (2000 * count + total) \div (2 * total)]

\* f"{count}": no percentage
PlainCount(count) == [count |-> count, percent |-> FALSE, permille |-> 0]

\* the n of nlargest(10)
TopN == 10

\* code-point order of the characters of the series names
CharOrder == <<HyphenMinus, "a", "b", "c", "z", U2010>>

\* the file_name and main_link values of the model, in code-point order
TextOrder ==
  <<"f1", "f2", "f3", "f4", "f5",
    "g01", "g02", "g03", "g04", "g05", "g06", "g07", "g08", "g09", "g10",
    "g11", "g12", "g13",
    "l1", "l2", "l3", "l4", "l5">>

Position(seq, x) == CHOOSE i \in DOMAIN seq : seq[i] = x

\* a < b for two series names (str comparison, character by character)
NameBefore(a, b) ==
  \/ Len(a) < Len(b) /\ \A i \in DOMAIN a : a[i] = b[i]
  \/ \E i \in DOMAIN a \cap DOMAIN b :
       /\ \A j \in 1..(i - 1) : a[j] = b[j]
       /\ Position(CharOrder, a[i]) < Position(CharOrder, b[i])

\* a < b for two file_name or main_link values
TextBefore(a, b) == Position(TextOrder, a) < Position(TextOrder, b)

\* k < l for two (series_name, file_name, main_link) keys: the order in which
\* groupby (sort=True) lists its groups
KeyBefore(k, l) ==
  \/ NameBefore(k[1], l[1])
  \/ /\ k[1] = l[1]
     /\ \/ TextBefore(k[2], l[2])
        \/ k[2] = l[2] /\ TextBefore(k[3], l[3])

\* one row of the result of groupby(...).sum()
GroupEntry(totals, k) == [key |-> k, access_count |-> totals[k]]

\* the result of groupby(['series_name', 'file_name', 'main_link']).sum() as
\* the sequence of its groups, in key order
SortedGroups(totals) ==
  [n \in 1..Cardinality(DOMAIN totals) |->
     GroupEntry(totals,
                CHOOSE x \in DOMAIN totals :
                  Cardinality({y \in DOMAIN totals : KeyBefore(y, x)}) = n - 1)]

\* number of entries that Series.nlargest puts before entry i of s: the
\* larger ones, and of the equal ones those listed earlier (keep='first')
LargerBefore(s, i) ==
  Cardinality({j \in DOMAIN s :
                 \/ s[j].access_count > s[i].access_count
                 \/ s[j].access_count = s[i].access_count /\ j < i})

\* NLargest that keeps the first n groups in key order
NLargestUnsorted(s, n) ==
  [k \in 1..(IF Len(s) < n THEN Len(s) ELSE n) |-> s[k]]

\* Series.nlargest(n): the n largest entries, largest first
NLargest(s, n) ==
  [k \in 1..(IF Len(s) < n THEN Len(s) ELSE n) |->
     s[CHOOSE i \in DOMAIN s : LargerBefore(s, i) = k - 1]]

(***************************************************************************)
(* Load functions (one cached loader per page)                             *)
(***************************************************************************)
\* 全体概要.py load_all_data: the ranking table
LoadAllDataRanked(csv) ==
  [i \in DOMAIN csv |->
     [csv[i] EXCEPT !.access_count = CoerceAccessCount(@),
                    !.series_name = NormalizeHyphen(@)]]

\* 全体概要.py load_all_data: the series catalog
LoadAllDataDetails(csv) ==
  [i \in DOMAIN csv |-> [csv[i] EXCEPT !.series_name = NormalizeHyphen(@)]]

\* 分野別分析.py load_data: the ranking table, with the year_month column
LoadDataRanked(csv) ==
  [i \in DOMAIN csv |->
     [date |-> csv[i].date, series_name |-> csv[i].series_name,
      field_major |-> csv[i].field_major, organization |-> csv[i].organization,
      file_type |-> csv[i].file_type, file_name |-> csv[i].file_name,
      main_link |-> csv[i].main_link, rank |-> csv[i].rank,
      access_count |-> CoerceAccessCount(csv[i].access_count),
      year_month |-> MonthOf(csv[i].date)]]

\* 分野別分析.py load_data: the series catalog, as read
LoadDataDetails(csv) == csv

\* 統計シリーズ概要.py load_data: the catalog without the rows that miss
\* field_major, organization or series_name
LoadSeriesDetails(csv) ==
  SelectSeq(csv, LAMBDA r : r.field_major # NaN /\ r.organization # NaN
                            /\ r.series_name # NaNName)

(***************************************************************************)
(* Sidebar: date window (identical in 全体概要.py and 分野別分析.py)       *)
(***************************************************************************)
\* df['date'].min().date() / df['date'].max().date()
MinDate(rows) ==
  CHOOSE d \in {rows[i].date : i \in DOMAIN rows} :
    \A i \in DOMAIN rows : d <= rows[i].date
MaxDate(rows) ==
  CHOOSE d \in {rows[i].date : i \in DOMAIN rows} :
    \A i \in DOMAIN rows : rows[i].date <= d

\* ResolveWindow with the two bounds of a custom range taken in the wrong
\* order
ResolveWindowSwapped(option, range, min_date, max_date) ==
  IF option = "custom" /\ Len(range) = 2
  THEN [start_date |-> range[2], end_date |-> range[1], error |-> FALSE]
  ELSE [start_date |-> min_date, end_date |-> max_date, error |-> FALSE]

\* the if/elif chain on date_range_option; error is st.sidebar.error
ResolveWindow(option, range, min_date, max_date) ==
  CASE option = "past_1_week" ->
         [start_date |-> MinusDays(max_date, 7), end_date |-> max_date, error |-> FALSE]
    [] option = "past_1_month" ->
         [start_date |-> MinusRelativeDelta(max_date, 0, 1), end_date |-> max_date, error |-> FALSE]
    [] option = "past_1_year" ->
         [start_date |-> MinusRelativeDelta(max_date, 1, 0), end_date |-> max_date, error |-> FALSE]
    [] option = "past_2_years" ->
         [start_date |-> MinusRelativeDelta(max_date, 2, 0), end_date |-> max_date, error |-> FALSE]
    [] option = "past_3_years" ->
         [start_date |-> MinusRelativeDelta(max_date, 3, 0), end_date |-> max_date, error |-> FALSE]
    [] option = "past_5_years" ->
         [start_date |-> MinusRelativeDelta(max_date, 5, 0), end_date |-> max_date, error |-> FALSE]
    [] option = "all_period" ->
         [start_date |-> min_date, end_date |-> max_date, error |-> FALSE]
    [] OTHER ->
         IF Len(range) = 2
         THEN [start_date |-> range[1], end_date |-> range[2], error |-> FALSE]
         ELSE [start_date |-> min_date, end_date |-> max_date, error |-> TRUE]

\* FilterByDate with the end of the window excluded
FilterByDateEndExcluded(rows, start_date, end_date) ==
  SelectSeq(rows, LAMBDA r : r.date >= start_date /\ r.date < end_date)

\* df[(df['date'].dt.date >= start_date) & (df['date'].dt.date <= end_date)]
FilterByDate(rows, start_date, end_date) ==
  SelectSeq(rows, LAMBDA r : r.date >= start_date /\ r.date <= end_date)

\* what st.sidebar.date_input can return for value=(min_date, max_date),
\* min_value=min_date, max_value=max_date: an empty, a one-sided or an
\* ordered two-sided range of days of the dataset's span; the days offered
\* here are the days of the ranking rows
DateInputValues(rows) ==
  LET days == {rows[i].date : i \in DOMAIN rows}
  IN {<< >>} \cup {<<d>> : d \in days}
     \cup {p \in days \X days : p[1] <= p[2]}

(***************************************************************************)
(* 全体概要.py: the overview page script                                   *)
(***************************************************************************)
\* details_df[~details_df['series_name'].isin(ranked_series_set)]
\* with ranked_series_set = set(df['series_name'].unique())
UnrankedDf(df_, details) ==
  SelectSeq(details, LAMBDA r : r.series_name \notin UniqueSeries(df_))

\* the expanders of the unranked listing: one per field of custom_order that
\* occurs in unranked_df, with the rows of that field
UnrankedListing(unranked) ==
  LET ordered_fields == InCustomOrder(FieldsPresent(unranked))
  IN [i \in DOMAIN ordered_fields |->
        [field |-> ordered_fields[i],
         group_df |-> SelectSeq(unranked,
                                LAMBDA r : r.field_major = ordered_fields[i])]]

\* lines 96-101: the KPI counts, from the loaded tables and filtered_df
OverviewCounts(df_, details, w, fdf) ==
  [df |-> df_, details_df |-> details,
   min_date |-> MinDate(df_), max_date |-> MaxDate(df_),
   start_date |-> w.start_date, end_date |-> w.end_date,
   sidebar_error |-> w.error,
   filtered_df |-> fdf,
   total_series_count |-> NUniqueSeries(details),
   ranked_series_count |-> NUniqueSeries(fdf),
   unranked_series_count |-> NUniqueSeries(details) - NUniqueSeries(fdf),
   total_access |-> SumAccess(fdf)]

\* lines 83-86: filtered_df
OverviewFiltered(df_, details, w) ==
  OverviewCounts(df_, details, w, FilterByDate(df_, w.start_date, w.end_date))

\* lines 39-80: min_date, max_date and the window
OverviewWindow(df_, details, option, range) ==
  OverviewFiltered(df_, details,
                   ResolveWindow(option, range, MinDate(df_), MaxDate(df_)))

\* lines 32-101: everything the script computes before the KPI texts
OverviewHead(csv_r, csv_d, option, range) ==
  OverviewWindow(LoadAllDataRanked(csv_r), LoadAllDataDetails(csv_d),
                 option, range)

\* lines 193-221: the unranked listing
OverviewUnranked(unranked) ==
  [unranked_df |-> unranked, listing |-> UnrankedListing(unranked)]

\* lines 102-187: the KPI texts (a division by total_series_count without a
\* guard) and the charts
OverviewCharts(h) ==
  [ranked_series_text |->
     WithPercent(h.ranked_series_count, h.total_series_count),
   unranked_series_text |->
     WithPercent(h.unranked_series_count, h.total_series_count),
   monthly_access |-> ResampleMonthSum(h.filtered_df),
   major_popularity |->
     GroupBySum(h.filtered_df, <<"field_major">>),
   org_popularity |->
     GroupBySum(h.filtered_df, <<"organization">>),
   major_monthly |->
     GroupBySum(h.filtered_df, <<"field_major", "date:ME">>),
   org_monthly |->
     GroupBySum(h.filtered_df, <<"organization", "date:ME">>)]

\* lines 102-221
OverviewTail(h) ==
  Merge(OverviewCharts(h), OverviewUnranked(UnrankedDf(h.df, h.details_df)))

\* the division of line 102 raises ZeroDivisionError when the catalog has no
\* series name, and the run ends there
OverviewPage(h) ==
  IF h.total_series_count = 0
  THEN Merge(h, [exception |-> "ZeroDivisionError"])
  ELSE Merge(Merge(h, OverviewTail(h)), [exception |-> "none"])

\* one run of the script
RunOverview(csv_r, csv_d, option, range) ==
  OverviewPage(OverviewHead(csv_r, csv_d, option, range))

(***************************************************************************)
(* 分野別分析.py: the field analysis page script                           *)
(***************************************************************************)
\* st.selectbox(..., sorted_majors, index=default_index, key='major_selector'):
\* the field chosen by the user while it is offered, else the default entry
\* ("人口・世帯" when offered, else the first one)
SelectboxMajor(sorted_majors, chosen) ==
  IF chosen \in Range(sorted_majors) THEN chosen
  ELSE IF default_major \in Range(sorted_majors) THEN default_major
       ELSE sorted_majors[1]

\* st.selectbox(..., series_options), a widget without key: it keeps the
\* chosen entry while its options are those of the previous run, and is a
\* new widget showing the placeholder entry (index 0) when they changed
SelectboxSeries(series_in_major_ranked, previous_options, chosen) ==
  IF series_in_major_ranked = previous_options /\ chosen \in series_in_major_ranked
  THEN chosen ELSE series_placeholder

\* NUniqueDates that counts the rows
NUniqueDatesPerRow(rows) == Len(rows)

\* Series.nunique() of the date column
NUniqueDates(rows) == Cardinality({rows[i].date : i \in DOMAIN rows})

\* total_access / num_days if num_days > 0 else 0, as a fraction num / den
AvgDailyAccess(total_access, num_days) ==
  IF num_days > 0 THEN [num |-> total_access, den |-> num_days]
  ELSE [num |-> 0, den |-> 1]

\* Series.value_counts() of organization: rows per value, missing left out
OrgValueCounts(rows) ==
  [o \in {rows[i].organization : i \in DOMAIN rows} \ {NaN} |->
     Cardinality({i \in DOMAIN rows : rows[i].organization = o})]

\* lines 91-135: filtered_df and the fields offered by the field selector
FieldFiltered(df_, details, w, fdf) ==
  [df |-> df_, details_df |-> details,
   min_date |-> MinDate(df_), max_date |-> MaxDate(df_),
   start_date |-> w.start_date, end_date |-> w.end_date,
   sidebar_error |-> w.error,
   filtered_df |-> fdf,
   sorted_majors |-> InCustomOrder(FieldsPresent(fdf))]

FieldWindow(df_, details, w) ==
  FieldFiltered(df_, details, w, FilterByDate(df_, w.start_date, w.end_date))

\* lines 47-88: min_date, max_date and the window
FieldTables(df_, details, option, range) ==
  FieldWindow(df_, details,
              ResolveWindow(option, range, MinDate(df_), MaxDate(df_)))

\* lines 28-135
FieldHead(csv_r, csv_d, option, range) ==
  FieldTables(LoadDataRanked(csv_r), LoadDataDetails(csv_d), option, range)

\* filtered_df[filtered_df['field_major'] == selected_major]
FilterByMajor(rows, major) == SelectSeq(rows, LAMBDA r : r.field_major = major)

\* df_major_filtered[df_major_filtered['series_name'] == selected_series]
FilterBySeries(rows, series) == SelectSeq(rows, LAMBDA r : r.series_name = series)

\* lines 218-229: the counts of the field's catalog and their texts
RankInCounts(all_series_in_major, df_major_filtered) ==
  LET total    == NUniqueSeries(all_series_in_major)
      ranked   == NUniqueSeries(df_major_filtered)
      unranked == total - ranked
  IN [total_series_in_major_count |-> total,
      ranked_series_in_major_count |-> ranked,
      unranked_series_in_major_count |-> unranked,
      ranked_text |-> IF total > 0 THEN WithPercent(ranked, total)
                      ELSE PlainCount(ranked),
      unranked_text |-> IF total > 0 THEN WithPercent(unranked, total)
                        ELSE PlainCount(unranked)]

\* lines 239-242: the ランクイン状況 column ("O" is '○', "X" is '×'), set on
\* all_series_in_major, the copy that boolean indexing made of details_df
MarkRankIn(all_series_in_major, df_major_filtered) ==
  LET ranked_series_in_period == UniqueSeries(df_major_filtered)
  IN [i \in DOMAIN all_series_in_major |->
        [series_name |-> all_series_in_major[i].series_name,
         organization |-> all_series_in_major[i].organization,
         field_major |-> all_series_in_major[i].field_major,
         overview |-> all_series_in_major[i].overview,
         rank_in |-> IF all_series_in_major[i].series_name
                          \in ranked_series_in_period
                     THEN "O" ELSE "X"]]

\* lines 161-300: the sections of the selected field, from df_major_filtered
\* (dmf) and the marked catalog of the field
FieldSections(selected_major, dmf, marked) ==
  [selected_major |-> selected_major,
   df_major_filtered |-> dmf,
   total_access |-> SumAccess(dmf),
   num_days |-> NUniqueDates(dmf),
   avg_daily_access |-> AvgDailyAccess(SumAccess(dmf), NUniqueDates(dmf)),
   num_organizations |->
     Cardinality({dmf[i].organization : i \in DOMAIN dmf} \ {NaN}),
   major_monthly |-> ResampleMonthSum(dmf),
   file_totals |->
     GroupBySum(dmf, <<"series_name", "file_name", "main_link">>),
   top_files |->
     NLargest(SortedGroups(GroupBySum(dmf, <<"series_name", "file_name", "main_link">>)),
              TopN),
   org_dist |->
     GroupBySum(dmf, <<"organization">>),
   series_monthly_comparison |->
     GroupBySum(dmf, <<"series_name", "year_month">>),
   all_series_in_major |-> marked,
   ranked_org_dist |->
     OrgValueCounts(SelectSeq(marked, LAMBDA r : r.rank_in = "O")),
   unranked_series_df |-> SelectSeq(marked, LAMBDA r : r.rank_in = "X"),
   unranked_org_dist |->
     OrgValueCounts(SelectSeq(marked, LAMBDA r : r.rank_in = "X")),
   file_type_dist |->
     GroupBySum(dmf, <<"file_type">>),
   file_type_by_series |->
     GroupBySum(dmf, <<"series_name", "file_type">>),
   series_order |->
     GroupBySum(dmf, <<"series_name">>),
   series_in_major_ranked |-> UniqueSeries(dmf) \ {NaNName}]

\* FieldOfMajor where the assignment of the ランクイン状況 column writes through
\* to details_df
FieldOfMajorMarkingCatalog(selected_major, dmf, allser) ==
  Merge(Merge(FieldSections(selected_major, dmf, MarkRankIn(allser, dmf)),
              RankInCounts(allser, dmf)),
        [details_df |-> MarkRankIn(allser, dmf)])

\* lines 155-300 for df_major_filtered (dmf) and all_series_in_major (allser)
FieldOfMajor(selected_major, dmf, allser) ==
  Merge(FieldSections(selected_major, dmf, MarkRankIn(allser, dmf)),
        RankInCounts(allser, dmf))

\* lines 155-300: the sections of the selected field
FieldBody(h, selected_major) ==
  FieldOfMajor(selected_major, FilterByMajor(h.filtered_df, selected_major),
               SelectSeq(h.details_df, LAMBDA r : r.field_major = selected_major))

\* the mean of the rank column
MeanRank(rows) ==
  [num |-> SumSet(DOMAIN rows, [i \in DOMAIN rows |-> rows[i].rank]),
   den |-> Len(rows)]

\* lines 311-326: the drill-down of one series, from df_series_filtered
SeriesSections(dsf, start_date, end_date) ==
  [df_series_filtered |-> dsf,
   series_total_access |-> SumAccess(dsf),
   series_avg_rank |-> MeanRank(dsf),
   series_days_in_ranking |-> NUniqueDates(dsf),
   total_days_in_period |-> (end_date - start_date) + 1,
   file_popularity |->
     GroupBySum(dsf, <<"file_name", "main_link">>)]

\* lines 309-326
SeriesBody(v, selected_series) ==
  SeriesSections(FilterBySeries(v.df_major_filtered, selected_series),
                 v.start_date, v.end_date)

\* lines 300-335: the series selector and the drill-down of the chosen series
FieldDrillDown(v, ss) ==
  IF ss = series_placeholder
  THEN Merge(v, [exception |-> "none", selected_series |-> ss])
  ELSE Merge(Merge(v, SeriesBody(v, ss)),
             [exception |-> "none", selected_series |-> ss])

FieldSelected(v, previous_options, series) ==
  FieldDrillDown(v, SelectboxSeries(v.series_in_major_ranked, previous_options, series))

\* lines 137-335: the warning when no field is offered, else the sections of
\* the field the selector returns
FieldPage(h, major, previous_options, series) ==
  IF h.sorted_majors = << >>
  THEN Merge(h, [exception |-> "none", selected_major |-> NaN,
                 selected_series |-> series_placeholder,
                 series_in_major_ranked |-> {}])
  ELSE FieldSelected(Merge(h, FieldBody(h, SelectboxMajor(h.sorted_majors, major))),
                     previous_options, series)

\* one run of the script; major and series are the entries the two
\* selectors hold when the run starts, previous_options the series the series
\* selector offered in the previous run
RunFieldAnalysis(csv_r, csv_d, option, range, major, previous_options, series) ==
  FieldPage(FieldHead(csv_r, csv_d, option, range), major, previous_options, series)

(***************************************************************************)
(* 統計シリーズ概要.py: the series overview page script                    *)
(***************************************************************************)
\* the selections a multiselect is given here: nothing, or one entry
Multiselections(options) == {{}} \cup {{o} : o \in options}

\* lines 122-126: the table narrowed by the two multiselects
FilteredTable(details, fields, orgs) ==
  SelectSeq(details, LAMBDA r : /\ (fields # {} => r.field_major \in fields)
                                /\ (orgs # {} => r.organization \in orgs))

\* lines 54-80: one expander per field of custom_order present in the catalog
FieldListing(details, sorted_f) ==
  [i \in DOMAIN sorted_f |->
     [field |-> sorted_f[i],
      field_df |-> SelectSeq(details, LAMBDA r : r.field_major = sorted_f[i])]]

\* lines 89-105: one expander per organization (their order, sorted(), is
\* not modelled)
OrgListing(details, orgs) ==
  [o \in orgs |-> SelectSeq(details, LAMBDA r : r.organization = o)]

SeriesOverviewPage(details, fields, orgs) ==
  [df_details |-> details,
   sorted_fields |->
     InCustomOrder({details[i].field_major : i \in DOMAIN details}),
   field_listing |->
     FieldListing(details,
                  InCustomOrder({details[i].field_major : i \in DOMAIN details})),
   sorted_orgs |-> {details[i].organization : i \in DOMAIN details},
   org_listing |->
     OrgListing(details, {details[i].organization : i \in DOMAIN details}),
   filtered_table_df |-> FilteredTable(details, fields, orgs),
   exception |-> "none"]

\* one run of the script
RunSeriesOverview(csv_d, fields, orgs) ==
  SeriesOverviewPage(LoadSeriesDetails(csv_d), fields, orgs)

(***************************************************************************)
(* The state machine: the session of one user                              *)
(***************************************************************************)
VARIABLES
  csv_ranked,            \* estat_ranking_merged.csv
  csv_details,           \* estat_all_series_details_normalized.csv
  page,                  \* the page whose script ran last
  date_range_option,     \* the period radio button
  selected_range,        \* the value of st.sidebar.date_input
  selected_major,        \* the field selector (key 'major_selector')
  selected_series,       \* the series selector
  selected_fields,       \* multiselect of 統計シリーズ概要.py
  selected_orgs_filter,  \* multiselect of 統計シリーズ概要.py
  view                   \* every value the last run of the script computed

vars == <<csv_ranked, csv_details, page, date_range_option, selected_range,
          selected_major, selected_series, selected_fields,
          selected_orgs_filter, view>>

Pages == {"overview", "field_analysis", "series_overview"}
DatePages == {"overview", "field_analysis"}

\* value=(min_date, max_date) of st.sidebar.date_input
DefaultRange(csv_r) == <<MinDate(csv_r), MaxDate(csv_r)>>

\* the series the series selector offered in the run that produced v
OfferedSeries(p, v) == IF p = "field_analysis" THEN v.series_in_major_ranked ELSE {}

\* a full run of the script of page p with the given widget values
Rerun(p, option, range, major, series, fields, orgs) ==
  /\ page' = p
  /\ date_range_option' = option
  /\ selected_range' = range
  /\ selected_fields' = fields
  /\ selected_orgs_filter' = orgs
  /\ UNCHANGED <<csv_ranked, csv_details>>
  /\ CASE p = "overview" ->
            /\ view' = RunOverview(csv_ranked, csv_details, option, range)
            /\ selected_major' = NaN
            /\ selected_series' = series_placeholder
       [] p = "field_analysis" ->
            /\ view' = RunFieldAnalysis(csv_ranked, csv_details, option, range,
                                        major, OfferedSeries(page, view), series)
            /\ selected_major' = view'.selected_major
            /\ selected_series' = view'.selected_series
       [] OTHER ->
            /\ view' = RunSeriesOverview(csv_details, fields, orgs)
            /\ selected_major' = NaN
            /\ selected_series' = series_placeholder

\* the session starts on the main script with every widget at its default
Init ==
  /\ csv_ranked \in RankedFiles
  /\ csv_details \in DetailsFiles
  /\ page = "overview"
  /\ date_range_option = default_option
  /\ selected_range = DefaultRange(csv_ranked)
  /\ selected_major = NaN
  /\ selected_series = series_placeholder
  /\ selected_fields = {}
  /\ selected_orgs_filter = {}
  /\ view = RunOverview(csv_ranked, csv_details, default_option,
                        DefaultRange(csv_ranked))

\* the user opens a page: its widgets are new and show their defaults
OpenPage(p) ==
  Rerun(p, default_option, DefaultRange(csv_ranked), NaN, series_placeholder,
        {}, {})

\* the user picks another entry of the period radio button; the date input
\* is rendered only in custom mode and starts from value=(min_date, max_date)
SelectDateRangeOption(o) ==
  /\ page \in DatePages
  /\ o # date_range_option
  /\ Rerun(page, o, DefaultRange(csv_ranked), selected_major, selected_series,
           {}, {})

\* the user edits the date input (custom mode only)
PickCustomRange(r) ==
  /\ page \in DatePages
  /\ date_range_option = "custom"
  /\ r # selected_range
  /\ Rerun(page, date_range_option, r, selected_major, selected_series, {}, {})

\* the user picks a field in the field selector
SelectMajor(m) ==
  /\ page = "field_analysis"
  /\ m \in Range(view.sorted_majors)
  /\ m # selected_major
  /\ Rerun(page, date_range_option, selected_range, m, selected_series, {}, {})

\* the user picks an entry of the series selector
SelectSeries(s) ==
  /\ page = "field_analysis"
  /\ s \in view.series_in_major_ranked \cup {series_placeholder}
  /\ s # selected_series
  /\ Rerun(page, date_range_option, selected_range, selected_major, s, {}, {})

\* the user changes the field multiselect of the series overview
SelectFields(fs) ==
  /\ page = "series_overview"
  /\ fs \in Multiselections(Range(view.sorted_fields))
  /\ fs # selected_fields
  /\ Rerun(page, date_range_option, selected_range, NaN, series_placeholder,
           fs, selected_orgs_filter)

\* the user changes the organization multiselect of the series overview
SelectOrgs(os) ==
  /\ page = "series_overview"
  /\ os \in Multiselections(view.sorted_orgs)
  /\ os # selected_orgs_filter
  /\ Rerun(page, date_range_option, selected_range, NaN, series_placeholder,
           selected_fields, os)

Next ==
  \/ \E p \in Pages : OpenPage(p)
  \/ \E o \in Range(date_range_options) : SelectDateRangeOption(o)
  \/ \E r \in DateInputValues(csv_ranked) : PickCustomRange(r)
  \/ \E m \in Range(custom_order) : SelectMajor(m)
  \/ \E s \in UniqueSeries(csv_ranked) : SelectSeries(s)
  \/ SelectSeries(series_placeholder)
  \/ \E fs \in Multiselections(Range(custom_order)) : SelectFields(fs)
  \/ \E org \in Multiselections({csv_details[i].organization : i \in DOMAIN csv_details}) :
       SelectOrgs(org)

Spec == Init /\ [][Next]_vars

(***************************************************************************)
(* A session on the field analysis page with a ranking file of one field   *)
(* that holds many files                                                   *)
(***************************************************************************)
\* file names of the groups, in code-point order
GroupFileNames ==
  <<"g01", "g02", "g03", "g04", "g05", "g06", "g07", "g08", "g09", "g10",
    "g11", "g12", "g13">>

\* the row of group i: two series, two dates, counts that repeat (a = 0 makes
\* them all equal)
GroupRow(i, a, b) ==
  RankRow(IF i % 2 = 1 THEN Mar25 ELSE Mar31,
          IF i % 3 = 0 THEN NameB ELSE NameA,
          "jinko_setai", "soumu", "PDF", GroupFileNames[i], "l1", i,
          Num(((a * i + b) % 4) * 10))

\* a second row of group 3j - 2, on another date
SecondRow(j) ==
  RankRow(Mar28, NameA, "jinko_setai", "soumu", "PDF",
          GroupFileNames[3 * j - 2], "l1", j, Num(15))

\* a ranking file with n groups
GroupFile(n, a, b) ==
  [i \in 1..n |-> GroupRow(i, a, b)] \o [j \in 1..((n + 2) \div 3) |-> SecondRow(j)]

GroupFiles == {GroupFile(n, a, b) : n \in 1..MaxGroups, a \in {0, 1, 3}, b \in {0, 1}}

\* the field analysis page is opened on such a file
InitField ==
  /\ csv_ranked \in GroupFiles
  /\ csv_details = <<DetailsPool[1]>>
  /\ page = "field_analysis"
  /\ date_range_option = default_option
  /\ selected_range = DefaultRange(csv_ranked)
  /\ selected_major = default_major
  /\ selected_series = series_placeholder
  /\ selected_fields = {}
  /\ selected_orgs_filter = {}
  /\ view = RunFieldAnalysis(csv_ranked, csv_details, default_option,
                             DefaultRange(csv_ranked), NaN, {},
                             series_placeholder)

NextField ==
  \/ \E o \in Range(date_range_options) : SelectDateRangeOption(o)
  \/ \E r \in DateInputValues(csv_ranked) : PickCustomRange(r)

SpecField == InitField /\ [][NextField]_vars

(***************************************************************************)
(* A session that only turns the period selector, on data that ends on any *)
(* day of 2024                                                             *)
(***************************************************************************)
CalendarFiles ==
  {<<RankRow(DayNumber(2024, 1, 1) + k, NameA, "jinko_setai", "soumu", "PDF",
             "f1", "l1", 1, Num(100))>> : k \in 0..(CalendarDays - 1)}

InitCalendar ==
  /\ csv_ranked \in CalendarFiles
  /\ csv_details = <<DetailsPool[1]>>
  /\ page \in DatePages
  /\ date_range_option = default_option
  /\ selected_range = DefaultRange(csv_ranked)
  /\ selected_major = IF page = "field_analysis" THEN default_major ELSE NaN
  /\ selected_series = series_placeholder
  /\ selected_fields = {}
  /\ selected_orgs_filter = {}
  /\ view = IF page = "field_analysis"
            THEN RunFieldAnalysis(csv_ranked, csv_details, default_option,
                                  DefaultRange(csv_ranked), NaN, {},
                                  series_placeholder)
            ELSE RunOverview(csv_ranked, csv_details, default_option,
                             DefaultRange(csv_ranked))

NextCalendar == \E o \in Range(date_range_options) : SelectDateRangeOption(o)

SpecCalendar == InitCalendar /\ [][NextCalendar]_vars

(***************************************************************************)
(* Properties                                                              *)
(***************************************************************************)
\* the overview script ran to its end
OverviewRendered == page = "overview" /\ view.exception = "none"
\* the field analysis script showed the sections of a field
FieldShown == page = "field_analysis" /\ view.selected_major # NaN
\* the field analysis script showed the drill-down of a series
SeriesShown == FieldShown /\ view.selected_series # series_placeholder

RelativeOptions ==
  {"past_1_week", "past_1_month", "past_1_year", "past_2_years",
   "past_3_years", "past_5_years"}

InWindow(r) == view.start_date <= r.date /\ r.date <= view.end_date

\* C1 (as claimed): for every selector and every dataset the resolved window
\* satisfies min_date <= start_date <= end_date <= max_date.
C1_WindowInsideDataset ==
  page \in DatePages =>
    /\ view.min_date <= view.start_date
    /\ view.start_date <= view.end_date
    /\ view.end_date <= view.max_date

\* C1 (amended): for every selector start_date <= end_date <= max_date; the
\* all-time and custom windows also satisfy min_date <= start_date, while a
\* relative selector ends at max_date and starts the interval before it,
\* which may precede min_date.
C1_WindowEndsInsideDataset ==
  page \in DatePages =>
    /\ view.start_date <= view.end_date
    /\ view.end_date <= view.max_date
    /\ date_range_option \in {"all_period", "custom"} =>
         view.min_date <= view.start_date
    /\ date_range_option \in RelativeOptions =>
         /\ view.end_date = view.max_date
         /\ view.start_date <= MinusDays(view.max_date, 7)

\* C1 witness: the past week resolved on a dataset of several days that is
\* shorter than a week
C1_Witness ==
  /\ page \in DatePages
  /\ date_range_option = "past_1_week"
  /\ view.start_date < view.min_date
  /\ view.min_date < view.max_date

\* C2: ranked count + unranked count = number of catalog series (of the
\* field, or of the whole catalog), both counts are non-negative, and the
\* catalog series marked ranked and those marked unranked are disjoint sets
\* of exactly those sizes.
C2_StrictComplement ==
  /\ page = "overview" =>
       /\ view.ranked_series_count + view.unranked_series_count
            = view.total_series_count
       /\ view.ranked_series_count >= 0
       /\ view.unranked_series_count >= 0
  /\ FieldShown =>
       LET marked == view.all_series_in_major
           Names(mark) == {marked[i].series_name :
                             i \in {j \in DOMAIN marked : marked[j].rank_in = mark}}
       IN /\ view.ranked_series_in_major_count
               + view.unranked_series_in_major_count
               = view.total_series_in_major_count
          /\ view.ranked_series_in_major_count >= 0
          /\ view.unranked_series_in_major_count >= 0
          /\ Names("O") \cap Names("X") = {}
          /\ Cardinality(Names("O")) = view.ranked_series_in_major_count
          /\ Cardinality(Names("X")) = view.unranked_series_in_major_count

\* C3: every point of a monthly time series (overall, of the selected field,
\* per field, per organization, per series) is a calendar month that has at
\* least one row of the table the series is computed from.
C3_NoPointWithoutRows ==
  /\ OverviewRendered =>
       LET rows == view.filtered_df
       IN /\ \A m \in DOMAIN view.monthly_access :
               \E i \in DOMAIN rows : MonthOf(rows[i].date) = m
          /\ \A k \in DOMAIN view.major_monthly :
               \E i \in DOMAIN rows :
                 rows[i].field_major = k[1] /\ MonthOf(rows[i].date) = k[2]
          /\ \A k \in DOMAIN view.org_monthly :
               \E i \in DOMAIN rows :
                 rows[i].organization = k[1] /\ MonthOf(rows[i].date) = k[2]
  /\ FieldShown =>
       LET rows == view.df_major_filtered
       IN /\ \A m \in DOMAIN view.major_monthly :
               \E i \in DOMAIN rows : MonthOf(rows[i].date) = m
          /\ \A k \in DOMAIN view.series_monthly_comparison :
               \E i \in DOMAIN rows :
                 rows[i].series_name = k[1] /\ MonthOf(rows[i].date) = k[2]

\* the sum of the totals of the groups
GroupTotal(groups) == SumSet(DOMAIN groups, groups)

\* C4: for a non-empty filtered table and every grouping key of the pages the
\* per-group totals add up to the total access_count of the table.
C4_GroupTotalsAddUp ==
  /\ OverviewRendered /\ view.filtered_df # << >> =>
       /\ GroupTotal(view.major_popularity) = view.total_access
       /\ GroupTotal(view.org_popularity) = view.total_access
  /\ FieldShown /\ view.df_major_filtered # << >> =>
       /\ GroupTotal(view.org_dist) = view.total_access
       /\ GroupTotal(view.file_type_dist) = view.total_access
       /\ GroupTotal(view.series_order) = view.total_access
       /\ GroupTotal(view.file_totals) = view.total_access
       /\ GroupTotal(view.file_type_by_series) = view.total_access

\* C5: no run fails, and with zero catalog series (whole catalog, or the
\* selected field) the two KPI texts are plain counts without a percentage.
C5_EmptyResultsNeverFail ==
  /\ view.exception = "none"
  /\ page = "overview" /\ view.total_series_count = 0 =>
       ~view.ranked_series_text.percent /\ ~view.unranked_series_text.percent
  /\ FieldShown /\ view.total_series_in_major_count = 0 =>
       ~view.ranked_text.percent /\ ~view.unranked_text.percent

\* C6: the unranked listing of the overview holds exactly the catalog entries
\* whose series_name is absent from the rows of the selected window, as many
\* series as the unranked KPI of that window counts.
C6_UnrankedListingFollowsWindow ==
  OverviewRendered =>
    /\ view.unranked_df =
         SelectSeq(view.details_df,
                   LAMBDA r : r.series_name \notin UniqueSeries(view.filtered_df))
    /\ NUniqueSeries(view.unranked_df) = view.unranked_series_count

\* position of a field in the controlled vocabulary
OrderIndex(f) == CHOOSE k \in DOMAIN custom_order : custom_order[k] = f

\* shown displays every value of present, the values of the vocabulary first
\* and in its order, the others after them
DisplaysAll(shown, present) ==
  /\ Range(shown) = present
  /\ \A i, j \in DOMAIN shown :
       i < j /\ shown[j] \in Range(custom_order) =>
         /\ shown[i] \in Range(custom_order)
         /\ OrderIndex(shown[i]) < OrderIndex(shown[j])

\* C7: every field_major value present in the data is displayed in the field
\* selector, in the unranked listing and in the catalog listing, vocabulary
\* values first and in their fixed order, the other values after them.
C7_EveryFieldDisplayed ==
  /\ page = "field_analysis" =>
       DisplaysAll(view.sorted_majors, FieldsPresent(view.filtered_df))
  /\ OverviewRendered =>
       DisplaysAll([i \in DOMAIN view.listing |-> view.listing[i].field],
                   FieldsPresent(view.unranked_df))
  /\ page = "series_overview" =>
       DisplaysAll(view.sorted_fields, FieldsPresent(view.df_details))

\* C8: after load every ranking record has access_count >= 0, and so has
\* every total computed from the table.
C8_AccessCountNonNegative ==
  page \in DatePages =>
    /\ \A i \in DOMAIN view.df : view.df[i].access_count >= 0
    /\ SumAccess(view.filtered_df) >= 0

\* C9: in custom mode a range without exactly two bounds is reported, the
\* window is (min_date, max_date) and the run completes without raising; a
\* range with two bounds is the window.
C9_CustomRangeFallback ==
  page \in DatePages /\ date_range_option = "custom" =>
    IF Len(selected_range) = 2
    THEN /\ view.start_date = selected_range[1]
         /\ view.end_date = selected_range[2]
         /\ ~view.sidebar_error
    ELSE /\ view.sidebar_error
         /\ view.start_date = view.min_date
         /\ view.end_date = view.max_date
         /\ view.filtered_df = view.df
         /\ view.exception = "none"

\* rows is made of exactly the rows of view.df at the indices kept, once each
\* and in the order of view.df
ExactlyRows(rows, kept) ==
  /\ Len(rows) = Cardinality(kept)
  /\ \E f \in [DOMAIN rows -> kept] :
       /\ \A i \in DOMAIN rows : view.df[f[i]] = rows[i]
       /\ \A i, j \in DOMAIN rows : i < j => f[i] < f[j]

\* the rows of view.df inside the window
RowsInWindow == {i \in DOMAIN view.df : InWindow(view.df[i])}

\* C10: filtered_df is exactly the rows of the table with start_date <= date
\* <= end_date; with a field (and a series) chosen the rows shown are exactly
\* those that also have that field_major (and that series_name); filtering
\* the result again returns it unchanged.
C10_RowFilterExact ==
  /\ page \in DatePages =>
       /\ ExactlyRows(view.filtered_df, RowsInWindow)
       /\ FilterByDate(view.filtered_df, view.start_date, view.end_date)
            = view.filtered_df
  /\ FieldShown =>
       /\ ExactlyRows(view.df_major_filtered,
            {i \in RowsInWindow : view.df[i].field_major = view.selected_major})
       /\ FilterByMajor(FilterByDate(view.df_major_filtered, view.start_date,
                                     view.end_date), view.selected_major)
            = view.df_major_filtered
  /\ SeriesShown =>
       /\ ExactlyRows(view.df_series_filtered,
            {i \in RowsInWindow :
               /\ view.df[i].field_major = view.selected_major
               /\ view.df[i].series_name = view.selected_series})
       /\ FilterBySeries(view.df_series_filtered, view.selected_series)
            = view.df_series_filtered

\* C10 witness: the drill-down of a series is shown and the window leaves
\* out a row of the table
C10_Witness ==
  /\ SeriesShown
  /\ view.df_series_filtered # << >>
  /\ Len(view.filtered_df) < Len(view.df)

\* the (series, file, link) groups of the rows of the selected field
FileGroups ==
  {<<view.df_major_filtered[i].series_name, view.df_major_filtered[i].file_name,
     view.df_major_filtered[i].main_link>> : i \in DOMAIN view.df_major_filtered}

\* the summed access_count of a group
FileGroupTotal(k) ==
  SumSet({i \in DOMAIN view.df_major_filtered :
            /\ view.df_major_filtered[i].series_name = k[1]
            /\ view.df_major_filtered[i].file_name = k[2]
            /\ view.df_major_filtered[i].main_link = k[3]},
         [i \in DOMAIN view.df_major_filtered |->
            view.df_major_filtered[i].access_count])

\* C11: the top-10 file ranking of the selected field has 10 rows when the
\* filtered rows have at least 10 (series, file, link) groups and all the
\* groups when they have fewer; each row is a distinct group with its summed
\* access_count, the rows are sorted descending, and no group left out has a
\* larger total than a row of the ranking.
C11_TopTenFiles ==
  FieldShown =>
    /\ Len(view.top_files) =
         IF Cardinality(FileGroups) >= 10 THEN 10 ELSE Cardinality(FileGroups)
    /\ \A i \in DOMAIN view.top_files :
         /\ view.top_files[i].key \in FileGroups
         /\ view.top_files[i].access_count = FileGroupTotal(view.top_files[i].key)
    /\ \A i, j \in DOMAIN view.top_files :
         i < j => /\ view.top_files[i].key # view.top_files[j].key
                  /\ view.top_files[i].access_count >= view.top_files[j].access_count
    /\ \A k \in FileGroups \ {view.top_files[i].key : i \in DOMAIN view.top_files} :
         \A i \in DOMAIN view.top_files :
           view.top_files[i].access_count >= FileGroupTotal(k)

\* C11 witness: more than 10 groups, and a group left out of the ranking
\* although it precedes, in key order, a group with a larger total
C11_Witness ==
  /\ FieldShown
  /\ Cardinality(FileGroups) > 10
  /\ Len(view.top_files) = 10
  /\ \E k \in FileGroups \ {view.top_files[i].key : i \in DOMAIN view.top_files} :
       \E i \in DOMAIN view.top_files :
         /\ KeyBefore(k, view.top_files[i].key)
         /\ FileGroupTotal(k) < view.top_files[i].access_count

\* a catalog row with its series_name, field_major and organization
Complete(r) ==
  r.field_major # NaN /\ r.organization # NaN /\ r.series_name # NaNName

\* C12: after load the series catalog has no row with a missing field_major,
\* organization or series_name, on any page, and no such row is shown in the
\* unranked listing, in the field's series table or in the catalog listings.
C12_IncompleteCatalogRowsDropped ==
  /\ page \in DatePages =>
       \A i \in DOMAIN view.details_df : Complete(view.details_df[i])
  /\ OverviewRendered =>
       \A n \in DOMAIN view.listing :
         \A i \in DOMAIN view.listing[n].group_df :
           Complete(view.listing[n].group_df[i])
  /\ FieldShown =>
       \A i \in DOMAIN view.all_series_in_major :
         Complete(view.all_series_in_major[i])
  /\ page = "series_overview" =>
       /\ \A i \in DOMAIN view.df_details : Complete(view.df_details[i])
       /\ \A i \in DOMAIN view.filtered_table_df :
            Complete(view.filtered_table_df[i])

\* the number of calendar months a selector goes back
MonthsBack(o) ==
  CASE o = "past_1_month" -> 1
    [] o = "past_1_year" -> 12
    [] o = "past_2_years" -> 24
    [] o = "past_3_years" -> 36
    [] o = "past_5_years" -> 60

\* the civil dates s and m: s lies k calendar months before m, on the day of
\* month of m or on the last day of its month when that month is shorter
ClampedMonthsBefore(s, m, k) ==
  /\ s.y * 12 + s.m = m.y * 12 + m.m - k
  /\ s.d = IF m.d <= DaysInMonth(s.y, s.m) THEN m.d ELSE DaysInMonth(s.y, s.m)

\* C13: for the past-month and past-N-years selectors start_date is the day
\* of max_date in the month 1 or 12 N months earlier, or the last day of
\* that month when it is shorter (2024-03-31 gives 2024-02-29 for the past
\* month); it is max_date minus 30 or 365 N days only where the two coincide.
C13_CalendarArithmetic ==
  page \in DatePages
  /\ date_range_option \in RelativeOptions \ {"past_1_week"} =>
    /\ view.end_date = view.max_date
    /\ DayNumber(Civil(view.start_date).y, Civil(view.start_date).m,
                 Civil(view.start_date).d) = view.start_date
    /\ ClampedMonthsBefore(Civil(view.start_date), Civil(view.max_date),
                           MonthsBack(date_range_option))
    /\ view.max_date = DayNumber(2024, 3, 31) /\ date_range_option = "past_1_month"
         => view.start_date = DayNumber(2024, 2, 29)
    /\ view.max_date = DayNumber(2024, 2, 29) /\ date_range_option = "past_1_year"
         => view.start_date = DayNumber(2023, 2, 28)
    /\ view.start_date
         = view.max_date - 30 * (MonthsBack(date_range_option) % 12)
                         - 365 * (MonthsBack(date_range_option) \div 12)
         => ClampedMonthsBefore(Civil(view.start_date), Civil(view.max_date),
                                MonthsBack(date_range_option))

\* C13 witness: the past month of data that ends on 2024-03-31 starts on
\* 2024-02-29, which is not 30 days earlier
C13_Witness ==
  /\ page \in DatePages
  /\ date_range_option = "past_1_month"
  /\ view.max_date = DayNumber(2024, 3, 31)
  /\ view.start_date = DayNumber(2024, 2, 29)
  /\ view.start_date # view.max_date - 30

\* the dates of the rows of the selected field
FieldDates ==
  {view.df_major_filtered[i].date : i \in DOMAIN view.df_major_filtered}

\* C14: the average daily access of the selected field is its total
\* access_count divided by the number of distinct dates of its filtered
\* rows; without dates it is 0 and nothing is divided by zero; a total of
\* 300 on 3 distinct dates gives 100.
C14_AverageDailyAccess ==
  /\ AvgDailyAccess(0, 0).num = 0 /\ AvgDailyAccess(0, 0).den # 0
  /\ AvgDailyAccess(300, 3).num = 100 * AvgDailyAccess(300, 3).den
  /\ FieldShown =>
       /\ view.avg_daily_access.den # 0
       /\ IF FieldDates = {} THEN view.avg_daily_access.num = 0
          ELSE /\ view.avg_daily_access.den = Cardinality(FieldDates)
               /\ view.avg_daily_access.num =
                    SumSet(DOMAIN view.df_major_filtered,
                           [i \in DOMAIN view.df_major_filtered |->
                              view.df_major_filtered[i].access_count])

\* C14 witness: a field with more rows than dates and a positive total
C14_Witness ==
  /\ FieldShown
  /\ Cardinality(FieldDates) = 3
  /\ Len(view.df_major_filtered) > 3
  /\ view.avg_daily_access.num > 0
  /\ view.avg_daily_access.den = 3

\* the tables of the page are the loaded ones, and every value of the last
\* run is what a run computes from the two files and the current widget
\* values alone
RunOfCurrentSelections ==
  CASE page = "overview" ->
         /\ view.df = LoadAllDataRanked(csv_ranked)
         /\ view.details_df = LoadAllDataDetails(csv_details)
         /\ view = RunOverview(csv_ranked, csv_details, date_range_option,
                               selected_range)
    [] page = "field_analysis" ->
         /\ view.df = LoadDataRanked(csv_ranked)
         /\ view.details_df = LoadDataDetails(csv_details)
         /\ view = RunFieldAnalysis(csv_ranked, csv_details, date_range_option,
                                    selected_range, selected_major,
                                    view.series_in_major_ranked, selected_series)
    [] OTHER ->
         /\ view.df_details = LoadSeriesDetails(csv_details)
         /\ view = RunSeriesOverview(csv_details, selected_fields,
                                     selected_orgs_filter)

\* a rerun on the same page ends with the tables it started with
TablesKept ==
  /\ csv_ranked' = csv_ranked /\ csv_details' = csv_details
  /\ page' = page /\ page \in DatePages =>
       view'.df = view.df /\ view'.details_df = view.details_df
  /\ page' = page /\ page = "series_overview" =>
       view'.df_details = view.df_details

====
